---- MODULE Spec2Model ----
(***************************************************************************)
(* Model of the rental-listing aggregation route                           *)
(* (src/src/app/api/scrape-properties/route.ts): the module-level cache,   *)
(* the nine source adapters, and the GET handler with its two suspension   *)
(* points (the Promise.allSettled join and the notifier call).             *)
(***************************************************************************)
EXTENDS Integers, Sequences, FiniteSets, TLC

\* ------------------------------------------------------------------ bounds
NumCallers == 3      \* invocations of GET, each caller calls once
MaxTicks == 2        \* clock advances explored
RandDen == 5         \* resolution of Math.random(): values k/RandDen
MaxSeed == 0         \* seeds of the Math.random() stream: 0..MaxSeed

\* --------------------------------------------------------- program constants
TEN_MIN == 10 * 60 * 1000
MaxListings == 15
MVGMCount == 12
ExpatCount == 10
PriceMin == 400
PriceMax == 3500

\* ------------------------------------------------------------- model clock
TickStep == TEN_MIN \div 2
StartTime == 4 * TEN_MIN

Callers == 1..NumCallers
Seeds == 0..MaxSeed

Null == [null |-> TRUE]

Min(a, b) == IF a < b THEN a ELSE b

\* ------------------------------------------------------------ the agencies
\* Order of the promises handed to Promise.allSettled and of the agencies array.
AgencyOrder ==
  << "gruno", "vandermeulen", "rotsvast", "nova", "dcwonen",
     "123wonen", "mvgm", "kpmakelaars", "expatgroningen" >>

NetAdapters ==
  { "gruno", "vandermeulen", "rotsvast", "nova", "dcwonen", "123wonen", "kpmakelaars" }

AgentName ==
  [a \in { AgencyOrder[k] : k \in 1..Len(AgencyOrder) } |->
     CASE a = "gruno" -> "Gruno Verhuur"
       [] a = "vandermeulen" -> "Van der Meulen Makelaars"
       [] a = "rotsvast" -> "Rotsvast Groningen"
       [] a = "nova" -> "Nova Vastgoed"
       [] a = "dcwonen" -> "DC Wonen"
       [] a = "123wonen" -> "123Wonen"
       [] a = "mvgm" -> "MVGM Wonen"
       [] a = "kpmakelaars" -> "K&P Makelaars"
       [] a = "expatgroningen" -> "Expat Groningen"]

\* The static sources list of the response.
SourceNames == [k \in 1..Len(AgencyOrder) |-> AgentName[AgencyOrder[k]]]

\* ------------------------------------------------------------ Math.random()
\* The k-th value of the stream started at seed, as a numerator over RandDen.
Rand(seed, k) == (seed + k) % RandDen

\* Math.floor(Math.random() * n) for the k-th value of the stream.
RandomInt(seed, k, n) == (Rand(seed, k) * n) \div RandDen

\* ------------------------------------------------------- dates and the clock
\* Instants of the date arithmetic are counted in minutes since the epoch:
\* midnights, zone offsets and the clock readings used are whole minutes.
MINUTE == 1
DAY == 24 * 60 * MINUTE

\* Days from 1970-01-01 to the first day of month index m0 (0-based, any
\* integer: Date normalises overflow) of year y, plus d - 1.
EpochDay(y, m0, d) ==
  LET yy == y + (m0 \div 12)
      m == (m0 % 12) + 1
      y1 == IF m <= 2 THEN yy - 1 ELSE yy
      era == y1 \div 400
      yoe == y1 - era * 400
      mp == IF m > 2 THEN m - 3 ELSE m + 9
      doy == (153 * mp + 2) \div 5
      doe == yoe * 365 + (yoe \div 4) - (yoe \div 100) + doy
  IN era * 146097 + doe - 719468 + (d - 1)

\* The calendar date of an epoch day, as [year, month (1-12), day].
CivilFromDays(z) ==
  LET z1 == z + 719468
      era == z1 \div 146097
      doe == z1 - era * 146097
      yoe == (doe - (doe \div 1460) + (doe \div 36524) - (doe \div 146096)) \div 365
      doy == doe - (365 * yoe + (yoe \div 4) - (yoe \div 100))
      mp == (5 * doy + 2) \div 153
      d == doy - ((153 * mp + 2) \div 5) + 1
      m == IF mp < 10 THEN mp + 3 ELSE mp - 9
  IN [ year |-> yoe + era * 400 + (IF m <= 2 THEN 1 ELSE 0), month |-> m, day |-> d ]

\* new Date(year, monthIndex, day).getTime(): midnight of that day in the
\* server's zone (tz: minutes east of UTC); years 0..99 mean 1900..1999.
LocalMidnight(year, m0, day, tz) ==
  EpochDay(IF year >= 0 /\ year <= 99 THEN 1900 + year ELSE year, m0, day) * DAY - tz * MINUTE

\* date.toISOString().split('T')[0]: the UTC calendar day of an instant.
IsoDate(ms) == CivilFromDays(ms \div DAY)

\* A date text is its separator and the pieces between the separators; a
\* piece is a run of digits or a word.
Digits(ds) == [ digits |-> ds, word |-> "" ]
Word(w) == [ digits |-> <<>>, word |-> w ]

TwoDigits(n) == Digits(<< n \div 10, n % 10 >>)
FourDigits(n) ==
  Digits(<< (n \div 1000) % 10, (n \div 100) % 10, (n \div 10) % 10, n % 10 >>)
PlainDigits(n) == IF n < 10 THEN Digits(<< n >>) ELSE TwoDigits(n)

IsNumber(piece) == piece.word = "" /\ Len(piece.digits) > 0

\* Number(piece) and Number.parseInt(piece) of a run of digits.
RECURSIVE DigitsValue(_, _, _)
DigitsValue(ds, k, acc) ==
  IF k > Len(ds) THEN acc ELSE DigitsValue(ds, k + 1, 10 * acc + ds[k])

NumberOf(piece) == DigitsValue(piece.digits, 1, 0)

DutchMonths ==
  << "januari", "februari", "maart", "april", "mei", "juni",
     "juli", "augustus", "september", "oktober", "november", "december" >>

DutchWeekdays ==
  << "donderdag", "vrijdag", "zaterdag", "zondag", "maandag", "dinsdag", "woensdag" >>

\* Variant: the month table numbered from 1.
MonthNumber(w) == CHOOSE k \in 1..12 : DutchMonths[k] = w

\* monthNames[p]: the 0-based month index of a Dutch month name.
MonthIndex(w) == (CHOOSE k \in 1..12 : DutchMonths[k] = w) - 1

IsMonthName(piece) == \E k \in 1..12 : DutchMonths[k] = piece.word

\* "05-06-2025" for a calendar date.
NumericText(date) ==
  [ sep |-> "-", pieces |-> << TwoDigits(date.day), TwoDigits(date.month), FourDigits(date.year) >> ]

\* "donderdag 5 juni 2025" for a calendar date.
LongText(date) ==
  [ sep |-> " ",
    pieces |-> << Word(DutchWeekdays[(EpochDay(date.year, date.month - 1, date.day) % 7) + 1]),
                  PlainDigits(date.day), Word(DutchMonths[date.month]), FourDigits(date.year) >> ]

\* dateString.includes('-') && /\d{2}-\d{2}-\d{4}/.test(dateString)
LooksNumeric(text) ==
  /\ text.sep = "-"
  /\ \E k \in 1..(Len(text.pieces) - 2) :
       /\ Len(text.pieces[k].digits) >= 2
       /\ Len(text.pieces[k + 1].digits) = 2
       /\ Len(text.pieces[k + 2].digits) >= 4

\* parts.find(...) as an index: the least of the indices that satisfy the
\* test, 0 when none does.
FirstIndex(found) ==
  IF found = {} THEN 0 ELSE CHOOSE k \in found : \A j \in found : k <= j

\* Variant: the day difference without the clamp at zero.
Unclamped(n) == n

\* Math.max(0, n).
ClampDays(n) == IF n < 0 THEN 0 ELSE n

\* Lines 57-93: parsedDate.getTime(), or an invalid Date (NaN).
ParsedInstant(text, today, tz, seed) ==
  IF LooksNumeric(text)
  THEN LET p == text.pieces IN
       IF IsNumber(p[1]) /\ IsNumber(p[2]) /\ IsNumber(p[3])
       THEN [ valid |-> TRUE,
              ms |-> LocalMidnight(NumberOf(p[3]), NumberOf(p[2]) - 1, NumberOf(p[1]), tz) ]
       ELSE [ valid |-> FALSE, ms |-> 0 ]
  ELSE LET p == text.pieces
           dayAt == FirstIndex({ k \in 1..Len(p) :
                                   IsNumber(p[k]) /\ Len(p[k].digits) <= 2 /\ NumberOf(p[k]) <= 31 })
           monthAt == FirstIndex({ k \in 1..Len(p) : IsMonthName(p[k]) })
           yearAt == FirstIndex({ k \in 1..Len(p) : IsNumber(p[k]) /\ Len(p[k].digits) = 4 })
           day == IF dayAt = 0 THEN 1 ELSE NumberOf(p[dayAt])
           year == IF yearAt = 0 THEN 2025 ELSE NumberOf(p[yearAt])
       IN IF monthAt # 0
          THEN [ valid |-> TRUE, ms |-> LocalMidnight(year, MonthIndex(p[monthAt].word), day, tz) ]
          ELSE [ valid |-> TRUE, ms |-> today - ((Rand(seed, 0) * 7 * DAY) \div RandDen) ]

\* parseDutchDate(dateString) called at instant today on a server tz minutes
\* east of UTC.  toISOString() of an invalid Date throws, and the catch
\* answers with a random day of the last fourteen.
parseDutchDate(text, today, tz, seed) ==
  LET parsedDate == ParsedInstant(text, today, tz, seed) IN
  IF parsedDate.valid
  THEN [ listedDate |-> IsoDate(parsedDate.ms),
         daysAgo |-> ClampDays((today - parsedDate.ms) \div DAY) ]
  ELSE LET randomDaysAgo == RandomInt(seed, 0, 14) IN
       [ listedDate |-> IsoDate(today - randomDaysAgo * DAY),
         daysAgo |-> randomDaysAgo ]

\* Date.now() is in milliseconds.
MsPerMinute == 60 * 1000

\* new Date(Date.now() - randomDaysAgo * 24 * 60 * 60 * 1000).toISOString()
\* .split('T')[0], for Date.now() = t (ms).
FallbackDate(t, randomDaysAgo) == IsoDate((t \div MsPerMinute) * MINUTE - randomDaysAgo * DAY)

\* ------------------------------------------------------- generated adapters
MVGMStreets == << "Oosterstraat", "Herestraat", "Korreweg", "Helperzoom", "Concourslaan" >>
ExpatAreas == << "Centrum", "Zernike Campus", "Noord", "Helpman", "Paddepoel" >>

\* scrapeMVGM: twelve generated records, no network request at all.  Eight
\* Math.random() calls per record: days, street, number, price, size, rooms,
\* image, images.
scrapeMVGM(t, seed) ==
  [n \in 1..MVGMCount |->
     LET i == n - 1 IN
     [ id |-> << "mvgm", t, i >>,
       title |-> [ name |-> MVGMStreets[RandomInt(seed, 8 * i + 1, 5) + 1],
                   number |-> RandomInt(seed, 8 * i + 2, 200) + 1, cap |-> TRUE ],
       location |-> "Groningen",
       sourceUrl |-> [ site |-> "mvgm", street |-> "property", ref |-> i, stamp |-> t ],
       agent |-> AgentName["mvgm"],
       price |-> 900 + RandomInt(seed, 8 * i + 3, 700),
       size |-> 60 + RandomInt(seed, 8 * i + 4, 80),
       rooms |-> 2 + RandomInt(seed, 8 * i + 5, 3),
       listedDate |-> << FallbackDate(t, RandomInt(seed, 8 * i, 10)) >>,
       daysAgo |-> RandomInt(seed, 8 * i, 10) ]]

\* scrapeExpatGroningen: ten generated records, no network request.  Seven
\* Math.random() calls per record: days, area, price, size, rooms, image, images.
scrapeExpatGroningen(t, seed) ==
  [n \in 1..ExpatCount |->
     LET i == n - 1
         area == ExpatAreas[RandomInt(seed, 7 * i + 1, 5) + 1] IN
     [ id |-> << "expatgroningen", t, i >>,
       title |-> [ name |-> "Expat Housing " \o area, number |-> 0, cap |-> TRUE ],
       location |-> "Groningen " \o area,
       sourceUrl |-> [ site |-> "expatgroningen", street |-> "property", ref |-> i, stamp |-> t ],
       agent |-> AgentName["expatgroningen"],
       price |-> 800 + RandomInt(seed, 7 * i + 2, 800),
       size |-> 45 + RandomInt(seed, 7 * i + 3, 75),
       rooms |-> 1 + RandomInt(seed, 7 * i + 4, 3),
       listedDate |-> << FallbackDate(t, RandomInt(seed, 7 * i, 6)) >>,
       daysAgo |-> RandomInt(seed, 7 * i, 6) ]]

\* ---------------------------------------------------------------- the web
\* A listing path of an index page: a street slug and a trailing number/reference.
H1 == [ street |-> "damsterdiep", ref |-> 47 ]
H2 == [ street |-> "raamstraat", ref |-> 8 ]
Hrefs == { H1, H2 }

\* A detail page as a fetch sees it: status of the fetch and what the date
\* patterns find on the page (kind "parsed": the days parseDutchDate returns
\* for the matched text; "direct": available immediately; "none": no match).
\* For "parsed" the listedDate is the one parseDutchDate returns for a text
\* naming the day that many days before the day of the model clock.
\* priceMatches is what the adapter's price patterns capture on the page, in
\* pattern order (empty: no pattern matches); roomsMatch and sizeMatch hold
\* the number the rooms and size patterns capture (empty: no match).
Page(status, kind, days) ==
  [ status |-> status,
    date |-> [ kind |-> kind, daysAgo |-> days,
               listedDate |-> CivilFromDays(((StartTime \div MsPerMinute) \div DAY) - days) ],
    priceMatches |-> <<>>, roomsMatch |-> <<>>, sizeMatch |-> <<>> ]

PageOk(days) == Page("ok", "parsed", days)
PageThrow == Page("throw", "none", 0)
PageNonOk == Page("nonok", "none", 0)
PageHang == Page("hang", "none", 0)

\* context is what the price patterns capture in the index page around a
\* link, contextRooms and contextSize what the rooms and size patterns do.
Site(index, links, p1, p2) ==
  [ index |-> index, links |-> links, pages |-> [h \in Hrefs |-> IF h = H1 THEN p1 ELSE p2],
    context |-> [h \in Hrefs |-> <<>>],
    contextRooms |-> [h \in Hrefs |-> <<>>],
    contextSize |-> [h \in Hrefs |-> <<>>] ]

SiteThrow == Site("throw", <<>>, PageThrow, PageThrow)
SiteNonOk == Site("nonok", <<>>, PageThrow, PageThrow)
SiteHang == Site("hang", <<>>, PageThrow, PageThrow)
SiteListed == Site("ok", << H1, H2, H1 >>, PageOk(3), PageOk(1))
SiteFlaky == Site("ok", << H1, H2 >>, PageThrow, PageNonOk)
SiteUndated == Site("ok", << H2, H1 >>, Page("ok", "none", 0), Page("ok", "direct", 0))
SiteDetailHang == Site("ok", << H1, H2 >>, PageOk(2), PageHang)

\* The worlds explored: a total outage, and worlds in which one agency
\* answers in one of the ways above while the requests to the others fail.
Scenarios ==
  { << "gruno", SiteListed >>, << "vandermeulen", SiteFlaky >>,
    << "rotsvast", SiteUndated >>, << "nova", SiteDetailHang >>,
    << "dcwonen", SiteHang >>, << "123wonen", SiteNonOk >>,
    << "kpmakelaars", SiteListed >> }

Webs ==
  { [a \in NetAdapters |-> SiteThrow] } \cup
  { [a \in NetAdapters |-> IF a = sc[1] THEN sc[2] ELSE SiteThrow] : sc \in Scenarios }

\* ------------------------------------------------------- network adapters
Location(a) == IF a = "gruno" THEN "Groningen Centrum" ELSE "Groningen"

\* The title an adapter derives from the listing path.
TitleOf(a, href) ==
  [ name |-> href.street,
    number |-> IF a \in { "gruno", "nova", "dcwonen" } THEN href.ref ELSE 0,
    cap |-> a \in { "gruno", "vandermeulen", "rotsvast", "nova" } ]

\* Math.floor(Math.random() * n) of the date fallbacks, by adapter.
ThrowRange(a) ==
  CASE a = "gruno" -> 7 [] a = "vandermeulen" -> 10 [] a = "rotsvast" -> 7
    [] a = "nova" -> 5 [] a = "dcwonen" -> 3 [] a = "123wonen" -> 5
    [] a = "kpmakelaars" -> 3

OkRange(a) ==
  CASE a = "gruno" -> 7 [] a = "vandermeulen" -> 10 [] a = "rotsvast" -> 3
    [] a = "nova" -> 2 [] a = "dcwonen" -> 5 [] a = "123wonen" -> 7
    [] a = "kpmakelaars" -> 5

\* listingDate.daysAgo after the detail-page fetch of one listing; k is the
\* position of the fallback's Math.random() call in the stream.
ListingDaysAgo(a, page, seed, k) ==
  CASE page.status = "throw" -> RandomInt(seed, k, ThrowRange(a))
    [] page.status = "nonok" -> 0
    [] OTHER ->
       IF a \in { "gruno", "vandermeulen" }
       THEN IF page.date.kind = "parsed" THEN page.date.daysAgo
            ELSE RandomInt(seed, k, OkRange(a))
       ELSE IF a \in { "rotsvast", "nova" }
       THEN CASE page.date.kind = "parsed" -> page.date.daysAgo
              [] page.date.kind = "direct" -> RandomInt(seed, k, OkRange(a))
              [] OTHER -> 0
       ELSE RandomInt(seed, k, OkRange(a))

\* listingDate.listedDate after the detail-page fetch of one listing: << >>
\* is the empty string the variable starts with; t is Date.now() (ms).
ListingListedDate(a, page, seed, k, t) ==
  CASE page.status = "throw" -> << FallbackDate(t, RandomInt(seed, k, ThrowRange(a))) >>
    [] page.status = "nonok" -> <<>>
    [] OTHER ->
       IF a \in { "gruno", "vandermeulen" }
       THEN IF page.date.kind = "parsed" THEN << page.date.listedDate >>
            ELSE << FallbackDate(t, RandomInt(seed, k, OkRange(a))) >>
       ELSE IF a \in { "rotsvast", "nova" }
       THEN CASE page.date.kind = "parsed" -> << page.date.listedDate >>
              [] page.date.kind = "direct" -> << FallbackDate(t, RandomInt(seed, k, OkRange(a))) >>
              [] OTHER -> <<>>
       ELSE << FallbackDate(t, RandomInt(seed, k, OkRange(a))) >>

\* ------------------------------------------------------------------ prices
\* The text a price pattern captures: "4.500" is dotted with head 4 and
\* tail 500, "950" is plain with tail 950.
Cap(dotted, head, tail) == [ dotted |-> dotted, head |-> head, tail |-> tail ]

\* Number.parseInt(priceStr.replace(/\./g, ''), 10).
ParsePrice(cap) == IF cap.dotted THEN cap.head * 1000 + cap.tail ELSE cap.tail

\* The pattern loop of extractGrunoPrice and extractVanDerMeulenPrice from
\* the k-th match on: the first captured number inside the band, else 0.
RECURSIVE FirstValidPrice(_, _)
FirstValidPrice(matches, k) ==
  IF k > Len(matches) THEN 0
  ELSE LET priceNum == ParsePrice(matches[k]) IN
       IF priceNum >= PriceMin /\ priceNum <= PriceMax THEN priceNum
       ELSE FirstValidPrice(matches, k + 1)

extractGrunoPrice(matches) == FirstValidPrice(matches, 1)

extractVanDerMeulenPrice(matches) == FirstValidPrice(matches, 1)

\* The pattern loops of the other adapters: the first match, then break.
FirstMatchPrice(matches) == IF Len(matches) > 0 THEN ParsePrice(matches[1]) ELSE 0

\* The price of the record of one listing; k is the position of the
\* fallback's Math.random() call in the stream.
ListingPrice(a, site, href, seed, k) ==
  LET page == site.pages[href]
      ok == page.status = "ok"
      extractedPrice == IF ok THEN FirstMatchPrice(page.priceMatches) ELSE 0
  IN CASE a = "gruno" ->
            IF ok
            THEN LET detail == extractGrunoPrice(page.priceMatches) IN
                 IF detail = 0 THEN extractGrunoPrice(site.context[href]) ELSE detail
            ELSE 0
       [] a = "vandermeulen" ->
            LET context == extractVanDerMeulenPrice(site.context[href])
                price == IF context = 0 THEN 600 + RandomInt(seed, k, 1200) ELSE context
                detailPagePrice == IF ok THEN extractVanDerMeulenPrice(page.priceMatches) ELSE 0
            IN IF detailPagePrice # 0 THEN detailPagePrice ELSE price
       [] a \in { "rotsvast", "nova" } -> extractedPrice
       [] a \in { "dcwonen", "kpmakelaars" } ->
            IF extractedPrice # 0 THEN extractedPrice ELSE 400 + RandomInt(seed, k, 300)
       [] OTHER ->
            IF extractedPrice # 0 THEN extractedPrice ELSE 800 + RandomInt(seed, k, 600)

\* -------------------------------------------------------- rooms and size
\* The value variable that starts at 0 and takes a pattern's capture.
Extracted(match) == IF Len(match) > 0 THEN match[1] ELSE 0

\* extractedRooms || fallback, for extractedRooms starting at 0.
RoomsOr(match, fallback) == IF Extracted(match) # 0 THEN Extracted(match) ELSE fallback

\* rooms of the record of one listing; k, k2 are positions of the
\* fallbacks' Math.random() calls in the stream.
ListingRooms(a, site, href, seed, k, k2) ==
  LET page == site.pages[href]
      detail == IF page.status = "ok" THEN page.roomsMatch ELSE <<>>
  IN CASE a = "gruno" -> RoomsOr(detail, 1 + RandomInt(seed, k, 4))
       [] a = "vandermeulen" ->
            LET ctx == site.contextRooms[href]
                rooms == IF Len(ctx) > 0 THEN ctx[1] ELSE 2 + RandomInt(seed, k, 3)
            IN RoomsOr(detail, IF rooms # 0 THEN rooms ELSE 2 + RandomInt(seed, k2, 3))
       [] a \in { "rotsvast", "nova" } -> RoomsOr(detail, 1 + RandomInt(seed, k, 3))
       [] a = "dcwonen" -> 1
       [] a = "123wonen" -> RoomsOr(detail, 2 + RandomInt(seed, k, 3))
       [] OTHER -> 0

\* extractedSize || fallback: the size text is empty only without a match
\* ("0m2" is a non-empty string).  Sizes are kept as the number of m2.
SizeOr(match, fallback) == IF Len(match) > 0 THEN match[1] ELSE fallback

SizeFallback(a, seed, k) ==
  CASE a = "gruno" -> 25 + RandomInt(seed, k, 75)
    [] a \in { "vandermeulen", "rotsvast" } -> 40 + RandomInt(seed, k, 60)
    [] a = "nova" -> 25 + RandomInt(seed, k, 50)
    [] a = "123wonen" -> 50 + RandomInt(seed, k, 70)
    [] OTHER -> 15 + RandomInt(seed, k, 25)

\* size of the record of one listing.
ListingSize(a, site, href, seed, k) ==
  LET page == site.pages[href]
      detail == IF page.status = "ok" THEN page.sizeMatch ELSE <<>>
  IN IF a = "vandermeulen"
     THEN SizeOr(detail, SizeOr(site.contextSize[href], SizeFallback(a, seed, k)))
     ELSE SizeOr(detail, SizeFallback(a, seed, k))

\* The record pushed for the listing at href in iteration i (0-based); t is
\* Date.now() when it is built.
ListingRecord(a, site, t, seed, i, href) ==
  [ id |-> << a, t, i >>,
    title |-> TitleOf(a, href),
    location |-> Location(a),
    sourceUrl |-> [ site |-> a, street |-> href.street, ref |-> href.ref, stamp |-> 0 ],
    agent |-> AgentName[a],
    price |-> ListingPrice(a, site, href, seed, 5 * i + 1),
    size |-> ListingSize(a, site, href, seed, 5 * i + 3),
    rooms |-> ListingRooms(a, site, href, seed, 5 * i + 2, 5 * i + 4),
    listedDate |-> ListingListedDate(a, site.pages[href], seed, 5 * i, t),
    daysAgo |-> ListingDaysAgo(a, site.pages[href], seed, 5 * i) ]

\* Variant: the loop takes every link of the index page.
Unbounded(n) == n

\* Math.min(propertyLinks.length, 15)
LoopBound(n) == Min(n, MaxListings)

\* Variant: no link counts as seen before.
NeverProcessed(processedUrls, href) == FALSE

\* processedUrls.has(href)
AlreadyProcessed(processedUrls, href) == href \in processedUrls

\* Variant: the loop stops at the first listing whose detail-page fetch fails.
RECURSIVE ScrapeLoopAbort(_, _, _, _, _, _, _)
ScrapeLoopAbort(a, site, t, seed, i, processedUrls, properties) ==
  IF i >= LoopBound(Len(site.links)) THEN properties
  ELSE LET href == site.links[i + 1] IN
       IF AlreadyProcessed(processedUrls, href)
       THEN ScrapeLoopAbort(a, site, t, seed, i + 1, processedUrls, properties)
       ELSE IF site.pages[href].status # "ok" THEN properties
       ELSE ScrapeLoopAbort(a, site, t, seed, i + 1, processedUrls \cup { href },
              Append(properties, ListingRecord(a, site, t, seed, i, href)))

\* The per-listing loop of an adapter from iteration i (0-based) on.
RECURSIVE ScrapeLoop(_, _, _, _, _, _, _)
ScrapeLoop(a, site, t, seed, i, processedUrls, properties) ==
  IF i >= LoopBound(Len(site.links)) THEN properties
  ELSE LET href == site.links[i + 1] IN
       IF AlreadyProcessed(processedUrls, href)
       THEN ScrapeLoop(a, site, t, seed, i + 1, processedUrls, properties)
       ELSE ScrapeLoop(a, site, t, seed, i + 1, processedUrls \cup { href },
              Append(properties, ListingRecord(a, site, t, seed, i, href)))

\* The body of a network adapter inside its outer try: the index fetch
\* rejects ("throw"), or reading its body does ("badbody"), or the status is
\* not OK and the adapter returns [], or the loop runs.  t is Date.now() when
\* the records are built.
AdapterBody(a, site, t, seed) ==
  CASE site.index \in { "throw", "badbody" } -> [ threw |-> TRUE, value |-> <<>> ]
    [] site.index = "nonok" -> [ threw |-> FALSE, value |-> <<>> ]
    [] OTHER -> [ threw |-> FALSE, value |-> ScrapeLoop(a, site, t, seed, 0, {}, <<>>) ]

\* Variant: no outer catch, an exception of the body rejects the promise.
Uncaught(body) ==
  IF body.threw THEN [ status |-> "rejected", reason |-> "Error" ]
  ELSE [ status |-> "fulfilled", value |-> body.value ]

\* The outer try/catch of an adapter: catch (error) { return []; }.
CatchAll(body) ==
  [ status |-> "fulfilled", value |-> IF body.threw THEN <<>> ELSE body.value ]

\* One run of a network adapter against its site, as its settled promise.
scrapeSite(a, site, t, seed) == CatchAll(AdapterBody(a, site, t, seed))

\* The links the loop fetches a detail page for.
FetchedLinks(site) ==
  { site.links[k] : k \in 1..LoopBound(Len(site.links)) }

\* A fetch without a timeout never settles when the source never answers.
NeverSettles(site) ==
  \/ site.index = "hang"
  \/ /\ site.index = "ok"
     /\ \E h \in FetchedLinks(site) : site.pages[h].status = "hang"

\* ------------------------------------------------------------------- state
VARIABLES
  now,                 \* Date.now(), epoch ms
  web,                 \* how each agency site answers
  cachedResult,        \* module-level cache: Null or a ScrapingResponse
  lastScrapeTs,        \* epoch ms of the last cache store
  pc,                  \* per GET call: "idle", "scraping", "notifying", "done"
  startTs,             \* Date.now() when the call launched the adapters
  seed,                \* where the call's Math.random() stream starts
  result,              \* the call's local result
  previousProperties,  \* the call's local previousProperties
  newProperties,       \* the call's local newProperties
  notifierArg,         \* arguments sendNotificationEmails was called with
  notifyOutcome,       \* how the notifier call settled
  response,            \* body of the call's JSON response
  stores,              \* history: number of cache stores so far
  servedStore,         \* history: per call, the store its response was built from
  settledIn,           \* merge step taken alone: the allSettled results
  mergedOut,           \* merge step taken alone: << allProperties >> once merged
  slots,               \* the join taken alone: the result array Promise.allSettled fills
  joinOrder,           \* the join taken alone: promise indices in completion order
  dateIn,              \* parseDutchDate taken alone: the call (text, clock, time zone)
  dateOut,             \* parseDutchDate taken alone: << returned object >> once called
  adIn,                \* one adapter taken alone: the adapter, its site, the random seed
  adOut,               \* one adapter taken alone: << settled promise >> once run
  mwPath,              \* middleware: the pathname the requests of this run ask for
  mwNow,               \* middleware: Date.now(), epoch ms
  rateLimitStore,      \* middleware: the Map from identifier to { count, resetTime }
  windowAllowed,       \* history: per identifier, calls allowed since its window opened
  mwOut,               \* middleware: << the last request and what was returned for it >>
  loopIn,              \* an adapter's loop taken step by step: adapter, site, seed
  loopRun              \* its locals: i, processedUrls, properties, and the fetches so far

vars ==
  << now, web, cachedResult, lastScrapeTs, pc, startTs, seed, result,
     previousProperties, newProperties, notifierArg, notifyOutcome, response,
     stores, servedStore,
     settledIn, mergedOut, slots, joinOrder, dateIn, dateOut, adIn, adOut,
     mwPath, mwNow, rateLimitStore, windowAllowed, mwOut, loopIn, loopRun >>

cacheVars == << cachedResult, lastScrapeTs >>
localVars == << result, previousProperties, newProperties, notifierArg, notifyOutcome >>
mergeVars == << settledIn, mergedOut >>
joinVars == << slots, joinOrder >>
dateVars == << dateIn, dateOut >>
adapterVars == << adIn, adOut >>
mwVars == << mwPath, mwNow, rateLimitStore, windowAllowed, mwOut >>
loopVars == << loopIn, loopRun >>

\* Everything GET does not touch, and everything only GET touches.
sideVars == << mergeVars, joinVars, dateVars, adapterVars, mwVars, loopVars >>
getVars ==
  << now, web, cacheVars, pc, startTs, seed, localVars, response, stores, servedStore >>

\* ------------------------------------------------------------- GET, pieces
\* Variant: the boundary of exactly ten minutes still counts as fresh.
CacheValidInclusive(cached, ts, t) == cached # Null /\ t - ts <= TEN_MIN

\* Line 1465: the cache-hit test.
CacheValid(cached, ts, t) == cached # Null /\ t - ts < TEN_MIN

\* Each adapter's promise once settled.  The generated adapters contain no
\* await, so their records are built when GET calls them (t0); a network
\* adapter builds its records after its fetches (t1).
AdapterPromise(a, w, t0, t1, sd) ==
  CASE a = "mvgm" -> [ status |-> "fulfilled", value |-> scrapeMVGM(t0, sd) ]
    [] a = "expatgroningen" -> [ status |-> "fulfilled", value |-> scrapeExpatGroningen(t0, sd) ]
    [] OTHER -> scrapeSite(a, w[a], t1, sd)

\* What each adapter's promise resolves to.
RunAdapter(a, w, t0, t1, sd) == AdapterPromise(a, w, t0, t1, sd).value

\* What Promise.allSettled hands to GET, in the order of the promise array.
SettledOf(w, t0, t1, sd) ==
  [k \in 1..Len(AgencyOrder) |-> AdapterPromise(AgencyOrder[k], w, t0, t1, sd)]

\* Lines 1496-1517: agencies.forEach pushing the fulfilled values in order.
RECURSIVE MergeFrom(_, _, _)
MergeFrom(settled, k, allProperties) ==
  IF k > Len(settled) THEN allProperties
  ELSE MergeFrom(settled, k + 1,
         IF settled[k].status = "fulfilled"
         THEN allProperties \o settled[k].value
         ELSE allProperties)

\* Variant: a fail-fast join, the merge stops at the first rejected adapter.
RECURSIVE MergeUntilRejected(_, _, _)
MergeUntilRejected(settled, k, allProperties) ==
  IF k > Len(settled) \/ settled[k].status # "fulfilled" THEN allProperties
  ELSE MergeUntilRejected(settled, k + 1, allProperties \o settled[k].value)

MergeSettledFailFast(settled) == MergeUntilRejected(settled, 1, <<>>)

MergeSettled(settled) == MergeFrom(settled, 1, <<>>)

\* Lines 1519-1528.
BuildResult(allProperties, t) ==
  [ properties |-> allProperties,
    count |-> Len(allProperties),
    timestamp |-> t,
    sources |-> SourceNames,
    cached |-> FALSE ]

\* Lines 1536-1540.
PreviousOf(cached) == IF cached # Null THEN cached.properties ELSE <<>>

HasId(props, id) == \E k \in 1..Len(props) : props[k].id = id

\* Variant: the filter without the guard on an existing cache.
DetectNewUnguarded(cached, allProperties) ==
  SelectSeq(allProperties, LAMBDA p : ~HasId(PreviousOf(cached), p.id))

\* Variant: the filter keyed by sourceUrl instead of id.
DetectNewByUrl(cached, allProperties) ==
  IF cached # Null
  THEN SelectSeq(allProperties,
         LAMBDA p : ~\E k \in 1..Len(cached.properties) :
                       cached.properties[k].sourceUrl = p.sourceUrl)
  ELSE <<>>

\* Lines 1542-1545.
DetectNew(cached, allProperties) ==
  IF cached # Null
  THEN SelectSeq(allProperties, LAMBDA p : ~HasId(PreviousOf(cached), p.id))
  ELSE <<>>

\* Variant: a hit answers with the records only, count and sources dropped.
HitResponseRecordsOnly(cached) ==
  [cached EXCEPT !.cached = TRUE, !.count = 0, !.sources = <<>>]

\* Line 1467: the body of a cache-hit response.
HitResponse(cached) == [cached EXCEPT !.cached = TRUE]

\* Variant: the notifier call without its try/catch, a rejection propagates.
NotifierUnguarded(o) == IF o = "rejected" THEN "thrown" ELSE "completed"

\* Lines 1551-1557: how the try/catch around the notifier call ends.
TryNotifier(o) == "completed"

\* Lines 1566-1579: the body of the response of GET's outer catch.
ErrorResponse ==
  [ error |-> "Failed to scrape properties", properties |-> <<>>, count |-> 0 ]

\* ------------------------------------------------------------------ actions
\* The handler and the cache before any call.
GetIdle ==
  /\ now = StartTime
  /\ cachedResult = Null
  /\ lastScrapeTs = 0
  /\ pc = [c \in Callers |-> "idle"]
  /\ startTs = [c \in Callers |-> 0]
  /\ seed = [c \in Callers |-> 0]
  /\ result = [c \in Callers |-> Null]
  /\ previousProperties = [c \in Callers |-> <<>>]
  /\ newProperties = [c \in Callers |-> <<>>]
  /\ notifierArg = [c \in Callers |-> <<>>]
  /\ notifyOutcome = [c \in Callers |-> "none"]
  /\ response = [c \in Callers |-> Null]
  /\ stores = 0
  /\ servedStore = [c \in Callers |-> 0]

MergeIdle == settledIn = <<>> /\ mergedOut = <<>>
JoinIdle == slots = <<>> /\ joinOrder = <<>>
DateIdle == dateIn = Null /\ dateOut = <<>>
AdapterIdle == adIn = Null /\ adOut = <<>>
MwIdle ==
  /\ mwPath = <<>>
  /\ mwNow = 0
  /\ rateLimitStore = <<>>
  /\ windowAllowed = <<>>
  /\ mwOut = <<>>
LoopIdle == loopIn = Null /\ loopRun = Null

Init ==
  /\ GetIdle
  /\ MwIdle
  /\ LoopIdle
  /\ web \in Webs
  /\ MergeIdle
  /\ JoinIdle
  /\ DateIdle
  /\ AdapterIdle

\* The clock advances.
Tick ==
  /\ now < StartTime + MaxTicks * TickStep
  /\ now' = now + TickStep
  /\ UNCHANGED << web, cachedResult, lastScrapeTs, pc, startTs, seed, response >>
  /\ UNCHANGED << stores, servedStore >>
  /\ UNCHANGED localVars
  /\ UNCHANGED sideVars

\* GET up to its first suspension: the cache-hit return, or the launch of
\* the nine adapters and the await of Promise.allSettled.  Callers are
\* interchangeable, so they are taken to call in the order of their numbers.
GetStart(c) ==
  /\ pc[c] = "idle"
  /\ \A k \in 1..(c - 1) : pc[k] # "idle"
  /\ IF CacheValid(cachedResult, lastScrapeTs, now)
     THEN /\ response' = [response EXCEPT ![c] = HitResponse(cachedResult)]
          /\ servedStore' = [servedStore EXCEPT ![c] = stores]
          /\ pc' = [pc EXCEPT ![c] = "done"]
          /\ UNCHANGED << startTs, seed >>
     ELSE /\ \E sd \in Seeds : seed' = [seed EXCEPT ![c] = sd]
          /\ startTs' = [startTs EXCEPT ![c] = now]
          /\ pc' = [pc EXCEPT ![c] = "scraping"]
          /\ UNCHANGED << response, servedStore >>
  /\ UNCHANGED << now, web, stores >>
  /\ UNCHANGED cacheVars
  /\ UNCHANGED localVars
  /\ UNCHANGED sideVars

\* GET resumed after Promise.allSettled: merge, result, change detection;
\* then either the notifier call (second suspension) or the cache store and
\* the response.
GetSettled(c) ==
  /\ pc[c] = "scraping"
  /\ \A a \in NetAdapters : ~NeverSettles(web[a])
  /\ LET allProperties == MergeSettled(SettledOf(web, startTs[c], now, seed[c]))
         res == BuildResult(allProperties, now)
         fresh == DetectNew(cachedResult, allProperties)
     IN /\ result' = [result EXCEPT ![c] = res]
        /\ previousProperties' = [previousProperties EXCEPT ![c] = PreviousOf(cachedResult)]
        /\ newProperties' = [newProperties EXCEPT ![c] = fresh]
        /\ IF Len(fresh) > 0
           THEN /\ notifierArg' = [notifierArg EXCEPT ![c] = << fresh >>]
                /\ pc' = [pc EXCEPT ![c] = "notifying"]
                /\ UNCHANGED << cachedResult, lastScrapeTs, response, stores, servedStore >>
           ELSE /\ cachedResult' = res
                /\ lastScrapeTs' = now
                /\ stores' = stores + 1
                /\ servedStore' = [servedStore EXCEPT ![c] = stores + 1]
                /\ response' = [response EXCEPT ![c] = res]
                /\ pc' = [pc EXCEPT ![c] = "done"]
                /\ UNCHANGED notifierArg
  /\ UNCHANGED << now, web, startTs, seed, notifyOutcome >>
  /\ UNCHANGED sideVars

\* GET resumed after the notifier settled (resolved, or rejected and caught):
\* cache store and response.  An exception that left the try block would
\* end in the outer catch instead.
NotifyDone(c) ==
  /\ pc[c] = "notifying"
  /\ \E o \in { "resolved", "rejected" } :
       /\ notifyOutcome' = [notifyOutcome EXCEPT ![c] = o]
       /\ IF TryNotifier(o) = "completed"
          THEN /\ cachedResult' = result[c]
               /\ lastScrapeTs' = now
               /\ stores' = stores + 1
               /\ servedStore' = [servedStore EXCEPT ![c] = stores + 1]
               /\ response' = [response EXCEPT ![c] = result[c]]
          ELSE /\ response' = [response EXCEPT ![c] = ErrorResponse]
               /\ UNCHANGED << cachedResult, lastScrapeTs, stores, servedStore >>
  /\ pc' = [pc EXCEPT ![c] = "done"]
  /\ UNCHANGED << now, web, startTs, seed, result, previousProperties, newProperties, notifierArg >>
  /\ UNCHANGED sideVars

Next ==
  \/ Tick
  \/ \E c \in Callers : GetStart(c)
  \/ \E c \in Callers : GetSettled(c)
  \/ \E c \in Callers : NotifyDone(c)

Spec == Init /\ [][Next]_vars

\* The scheduler resumes a suspended GET once what it awaits has settled.
FairSpec ==
  /\ Spec
  /\ \A c \in Callers : WF_vars(GetSettled(c)) /\ WF_vars(NotifyDone(c))

\* ------------------------------------------ GET on a cache that has expired
\* Every agency site lists its listings.
AllListedWeb == [a \in NetAdapters |-> SiteListed]

\* The snapshot an earlier cycle stored at instant t.
EarlierSnapshot(t) == BuildResult(MergeSettled(SettledOf(AllListedWeb, t, t, 0)), t)

\* The handler some time after a cycle that ended twenty minutes ago.
WarmInit ==
  /\ now = StartTime
  /\ cachedResult = EarlierSnapshot(StartTime - 2 * TEN_MIN)
  /\ lastScrapeTs = StartTime - 2 * TEN_MIN
  /\ pc = [c \in Callers |-> "idle"]
  /\ startTs = [c \in Callers |-> 0]
  /\ seed = [c \in Callers |-> 0]
  /\ result = [c \in Callers |-> Null]
  /\ previousProperties = [c \in Callers |-> <<>>]
  /\ newProperties = [c \in Callers |-> <<>>]
  /\ notifierArg = [c \in Callers |-> <<>>]
  /\ notifyOutcome = [c \in Callers |-> "none"]
  /\ response = [c \in Callers |-> Null]
  /\ stores = 1
  /\ servedStore = [c \in Callers |-> 0]
  /\ web = AllListedWeb
  /\ MergeIdle
  /\ JoinIdle
  /\ DateIdle
  /\ AdapterIdle
  /\ MwIdle
  /\ LoopIdle

SpecWarm == WarmInit /\ [][Next]_vars

\* --------------------------------------------- the merge step taken alone
\* What Promise.allSettled can hand to the merge: per adapter, in agency
\* order, either a rejection or the adapter's list.
SettledInputs ==
  { [k \in 1..Len(AgencyOrder) |->
       IF k \in rej
       THEN [ status |-> "rejected", reason |-> "Error" ]
       ELSE [ status |-> "fulfilled",
              value |-> RunAdapter(AgencyOrder[k], AllListedWeb, StartTime, StartTime, 0) ]]
    : rej \in SUBSET (1..Len(AgencyOrder)) }

MergeInit ==
  /\ GetIdle
  /\ MwIdle
  /\ LoopIdle
  /\ web = AllListedWeb
  /\ settledIn \in SettledInputs
  /\ mergedOut = <<>>
  /\ JoinIdle
  /\ DateIdle
  /\ AdapterIdle

MergeStep ==
  /\ mergedOut = <<>>
  /\ mergedOut' = << MergeSettled(settledIn) >>
  /\ UNCHANGED settledIn
  /\ UNCHANGED getVars
  /\ UNCHANGED << mwVars, loopVars >>
  /\ UNCHANGED << joinVars, dateVars, adapterVars >>

MergeNext == MergeStep

SpecMerge == MergeInit /\ [][MergeNext]_vars

\* ----------------------------------- the Promise.allSettled join taken alone
\* Lines 1484-1494.  The nine promises settle one at a time, in any order;
\* Promise.allSettled stores each outcome at the index of its promise in the
\* input array and resolves when the last one has settled.
Pending == [ status |-> "pending" ]

\* Variant: outcomes collected in the order in which the promises settle.
AllSettledPush(results, k, outcome) ==
  LET free == { j \in 1..Len(results) : results[j] = Pending }
      first == CHOOSE j \in free : \A m \in free : j <= m
  IN [results EXCEPT ![first] = outcome]

\* Promise.allSettled: the outcome of the k-th promise goes to index k.
AllSettledPlace(results, k, outcome) == [results EXCEPT ![k] = outcome]

\* The generated adapters contain no await: their promises are already
\* fulfilled, in call order, when Promise.allSettled starts waiting.
SyncIndices == << 7, 9 >>

MixedWeb ==
  [a \in NetAdapters |->
     CASE a = "vandermeulen" -> SiteFlaky
       [] a = "rotsvast" -> SiteUndated
       [] OTHER -> SiteListed]

JoinInputs ==
  { SettledOf(AllListedWeb, StartTime, StartTime, 0),
    SettledOf(MixedWeb, StartTime, StartTime, 0),
    [k \in 1..Len(AgencyOrder) |->
       IF k \in { 2, 5 }
       THEN [ status |-> "rejected", reason |-> "Error" ]
       ELSE [ status |-> "fulfilled",
              value |-> RunAdapter(AgencyOrder[k], AllListedWeb, StartTime, StartTime, 0) ]] }

JoinInit ==
  /\ GetIdle
  /\ MwIdle
  /\ LoopIdle
  /\ web = AllListedWeb
  /\ settledIn \in JoinInputs
  /\ mergedOut = <<>>
  /\ slots = AllSettledPlace(
               AllSettledPlace([k \in 1..Len(AgencyOrder) |-> Pending],
                               SyncIndices[1], settledIn[SyncIndices[1]]),
               SyncIndices[2], settledIn[SyncIndices[2]])
  /\ joinOrder = SyncIndices
  /\ DateIdle
  /\ AdapterIdle

\* The promise of adapter k settles.
AdapterSettles(k) ==
  /\ \A j \in 1..Len(joinOrder) : joinOrder[j] # k
  /\ slots' = AllSettledPlace(slots, k, settledIn[k])
  /\ joinOrder' = Append(joinOrder, k)
  /\ UNCHANGED << settledIn, mergedOut >>
  /\ UNCHANGED getVars
  /\ UNCHANGED << mwVars, loopVars >>
  /\ UNCHANGED << dateVars, adapterVars >>

\* All nine have settled: GET resumes and merges the result array.
JoinMerge ==
  /\ Len(joinOrder) = Len(AgencyOrder)
  /\ mergedOut = <<>>
  /\ mergedOut' = << MergeSettled(slots) >>
  /\ UNCHANGED << settledIn, slots, joinOrder >>
  /\ UNCHANGED getVars
  /\ UNCHANGED << mwVars, loopVars >>
  /\ UNCHANGED << dateVars, adapterVars >>

JoinNext ==
  \/ \E k \in 1..Len(AgencyOrder) : AdapterSettles(k)
  \/ JoinMerge

SpecJoin == JoinInit /\ [][JoinNext]_vars

\* ----------------------------------------------------- one adapter taken alone
PricedPage(page, matches) == [page EXCEPT !.priceMatches = matches]

\* A page on which the rooms pattern captures rooms and the size pattern size.
SizedPage(page, rooms, size) == [page EXCEPT !.roomsMatch = << rooms >>, !.sizeMatch = << size >>]

\* Detail pages: priced and dated ("3 kamers", "55 m2"), bare, priced above
\* the band ("0 slaapkamers", "0 m2"), with a first match below the band and
\* a second inside it, and the two failures.
DetailPages ==
  { SizedPage(PricedPage(PageOk(3), << Cap(FALSE, 0, 950) >>), 3, 55),
    Page("ok", "none", 0),
    SizedPage(PricedPage(Page("ok", "direct", 0), << Cap(TRUE, 4, 500) >>), 0, 0),
    PricedPage(PageOk(1), << Cap(FALSE, 0, 250), Cap(TRUE, 1, 200) >>),
    PageThrow,
    PageNonOk }

\* Index pages: nothing around the links, or a price, "2 kamers" and "48 m2"
\* around the first one.
IndexContexts ==
  { [ price |-> [h \in Hrefs |-> <<>>],
      rooms |-> [h \in Hrefs |-> <<>>],
      size |-> [h \in Hrefs |-> <<>>] ],
    [ price |-> [h \in Hrefs |-> IF h = H1 THEN << Cap(FALSE, 0, 700) >> ELSE <<>>],
      rooms |-> [h \in Hrefs |-> IF h = H1 THEN << 2 >> ELSE <<>>],
      size |-> [h \in Hrefs |-> IF h = H1 THEN << 48 >> ELSE <<>>] ] }

AdapterSites ==
  { [ Site("ok", links, p1, p2) EXCEPT !.context = ctx.price, !.contextRooms = ctx.rooms,
                                       !.contextSize = ctx.size ] :
      links \in { << H1, H2 >>, << H2, H1, H2 >> },
      p1 \in DetailPages, p2 \in DetailPages, ctx \in IndexContexts }
  \cup { SiteThrow, SiteNonOk, Site("badbody", <<>>, PageThrow, PageThrow) }

AdapterInputs ==
  { [ agency |-> a, site |-> st, seed |-> sd ] :
      a \in NetAdapters, st \in AdapterSites, sd \in Seeds }
  \cup { [ agency |-> a, site |-> SiteThrow, seed |-> sd ] :
           a \in { "mvgm", "expatgroningen" }, sd \in Seeds }

AdapterInit ==
  /\ GetIdle
  /\ MwIdle
  /\ LoopIdle
  /\ web = AllListedWeb
  /\ MergeIdle
  /\ JoinIdle
  /\ DateIdle
  /\ adIn \in AdapterInputs
  /\ adOut = <<>>

\* The adapter is called and its promise settles.
AdapterRun ==
  /\ adOut = <<>>
  /\ adOut' = << AdapterPromise(adIn.agency, [a \in NetAdapters |-> adIn.site],
                                StartTime, StartTime, adIn.seed) >>
  /\ UNCHANGED adIn
  /\ UNCHANGED getVars
  /\ UNCHANGED << mwVars, loopVars >>
  /\ UNCHANGED << mergeVars, joinVars, dateVars >>

AdapterNext == AdapterRun

SpecAdapter == AdapterInit /\ [][AdapterNext]_vars

\* ------------------------------------------------- parseDutchDate taken alone
CalendarDate(y, m, d) == [ year |-> y, month |-> m, day |-> d ]

\* The day the calls are made on (server calendar), the minutes past
\* midnight of the server clock, and the server's zone.
TodayDate == CalendarDate(2025, 6, 10)
ClockMinutes == { 0, 30, 12 * 60, 23 * 60 + 59 }
ZoneOffsets == { -300, 0, 60, 120 }

\* Past days, today, days to come, a leap day, and a day no month has.
DateSamples ==
  { CalendarDate(2025, 6, 5), CalendarDate(2025, 6, 9), CalendarDate(2025, 6, 10),
    CalendarDate(2025, 6, 11), CalendarDate(2025, 8, 15), CalendarDate(2024, 12, 31),
    CalendarDate(2024, 2, 29), CalendarDate(2025, 2, 30) }

NoDate == CalendarDate(0, 0, 0)

IsCalendarDate(date) ==
  /\ date.month \in 1..12
  /\ CivilFromDays(EpochDay(date.year, date.month - 1, date.day)) = date

\* "binnenkort" (no month name), "per-05-06-2025" (digits after a word) and
\* "vanaf maart" (a month name, no day, no year).
OtherTexts ==
  { [ sep |-> " ", pieces |-> << Word("binnenkort") >> ],
    [ sep |-> "-", pieces |-> << Word("per"), TwoDigits(5), TwoDigits(6), FourDigits(2025) >> ],
    [ sep |-> " ", pieces |-> << Word("vanaf"), Word("maart") >> ] }

DateCalls ==
  { [ form |-> "numeric", date |-> d, text |-> NumericText(d) ] : d \in DateSamples }
  \cup { [ form |-> "long", date |-> d, text |-> LongText(d) ] : d \in DateSamples }
  \cup { [ form |-> "other", date |-> NoDate, text |-> x ] : x \in OtherTexts }

DateInputs ==
  { [ call |-> c,
      today |-> EpochDay(TodayDate.year, TodayDate.month - 1, TodayDate.day) * DAY
                  + mn * MINUTE - tz * MINUTE,
      tz |-> tz, seed |-> sd ] :
      c \in DateCalls, mn \in ClockMinutes, tz \in ZoneOffsets, sd \in Seeds }

DateInit ==
  /\ GetIdle
  /\ MwIdle
  /\ LoopIdle
  /\ web = AllListedWeb
  /\ MergeIdle
  /\ JoinIdle
  /\ dateIn \in DateInputs
  /\ dateOut = <<>>
  /\ adIn = Null
  /\ adOut = <<>>

\* parseDutchDate is called on the text.
ParseRun ==
  /\ dateOut = <<>>
  /\ dateOut' = << parseDutchDate(dateIn.call.text, dateIn.today, dateIn.tz, dateIn.seed) >>
  /\ UNCHANGED << dateIn, adIn, adOut >>
  /\ UNCHANGED getVars
  /\ UNCHANGED << mwVars, loopVars >>
  /\ UNCHANGED << mergeVars, joinVars >>

\* An adapter run in which the date patterns find the text on the first
\* listing's detail page, while the second page is any of the other kinds.
DatedAdapterRun ==
  /\ dateOut # <<>>
  /\ adOut = <<>>
  /\ \E a \in NetAdapters :
       \E p2 \in { PageThrow, PageNonOk, Page("ok", "none", 0), Page("ok", "direct", 0) } :
         adOut' = << scrapeSite(a, Site("ok", << H1, H2 >>,
                                        [ Page("ok", "parsed", dateOut[1].daysAgo)
                                            EXCEPT !.date.listedDate = dateOut[1].listedDate ], p2),
                                StartTime, dateIn.seed) >>
  /\ UNCHANGED << dateIn, dateOut, adIn >>
  /\ UNCHANGED getVars
  /\ UNCHANGED << mwVars, loopVars >>
  /\ UNCHANGED << mergeVars, joinVars >>

DateNext ==
  \/ ParseRun
  \/ DatedAdapterRun

SpecDate == DateInit /\ [][DateNext]_vars

\* ------------------------------------------------------ middleware.ts alone
\* A pathname is the sequence of its characters.
PathAdmin == << "/", "a", "d", "m", "i", "n" >>
PathAccount == << "/", "a", "c", "c", "o", "u", "n", "t" >>
PathApi == << "/", "a", "p", "i", "/" >>
PathApiAdmin == PathApi \o << "a", "d", "m", "i", "n" >>
PathLogin == PathApi \o << "a", "u", "t", "h", "/", "l", "o", "g", "i", "n" >>
PathSubscribe ==
  PathApi \o << "n", "o", "t", "i", "f", "i", "c", "a", "t", "i", "o", "n", "s", "/",
                "s", "u", "b", "s", "c", "r", "i", "b", "e" >>
PathScrape ==
  PathApi \o << "s", "c", "r", "a", "p", "e", "-", "p", "r", "o", "p", "e", "r", "t", "i", "e", "s" >>
PathNext == << "/", "_", "n", "e", "x", "t", "/" >>
PathFavicon == << "/", "f", "a", "v", "i", "c", "o", "n" >>
PathProperties == << "/", "p", "r", "o", "p", "e", "r", "t", "i", "e", "s" >>

\* pathname.startsWith(route)
StartsWith(pathname, route) ==
  Len(pathname) >= Len(route) /\ SubSeq(pathname, 1, Len(route)) = route

LoginRequests == 5
SubscribeRequests == 10
ScrapeRequests == 30
AdminRequests == 100
DefaultRequests == 60
HOUR == 60 * 60 * 1000

\* RATE_LIMITS without its default entry, in the order of its keys.
RATE_LIMITS ==
  << [ route |-> PathLogin, requests |-> LoginRequests, window |-> 15 * 60 * 1000 ],
     [ route |-> PathSubscribe, requests |-> SubscribeRequests, window |-> HOUR ],
     [ route |-> PathScrape, requests |-> ScrapeRequests, window |-> HOUR ],
     [ route |-> PathApiAdmin, requests |-> AdminRequests, window |-> HOUR ] >>

RateLimitDefault == [ route |-> <<>>, requests |-> DefaultRequests, window |-> 60 * 1000 ]

PROTECTED_ROUTES == { PathAdmin, PathAccount, PathApiAdmin }
ADMIN_ROUTES == { PathAdmin, PathApiAdmin }

\* getRateLimitConfig: an exact match first, then the first entry the
\* pathname starts with, then the default.
getRateLimitConfig(pathname) ==
  LET exact == { k \in 1..Len(RATE_LIMITS) : RATE_LIMITS[k].route = pathname }
      prefix == { k \in 1..Len(RATE_LIMITS) : StartsWith(pathname, RATE_LIMITS[k].route) }
  IN IF exact # {} THEN RATE_LIMITS[FirstIndex(exact)]
     ELSE IF prefix # {} THEN RATE_LIMITS[FirstIndex(prefix)]
     ELSE RateLimitDefault

\* rateLimitStore.get(identifier): Null for undefined.
StoreGet(store, identifier) ==
  IF identifier \in DOMAIN store THEN store[identifier] ELSE Null

\* rateLimitStore.set(identifier, record)
StoreSet(store, identifier, record) ==
  [k \in DOMAIN store \cup { identifier } |-> IF k = identifier THEN record ELSE store[k]]

\* Variant: the limit test lets one more call through.
LimitExceeded(count, maxRequests) == count > maxRequests

\* record.count >= maxRequests
LimitReached(count, maxRequests) == count >= maxRequests

\* checkRateLimit(identifier, maxRequests, windowMs) called at instant t:
\* what it returns and the store it leaves.
checkRateLimit(store, identifier, maxRequests, windowMs, t) ==
  LET record == StoreGet(store, identifier) IN
  IF record = Null \/ t > record.resetTime
  THEN [ allowed |-> TRUE, resetTime |-> t + windowMs, remaining |-> maxRequests - 1,
         store |-> StoreSet(store, identifier, [ count |-> 1, resetTime |-> t + windowMs ]) ]
  ELSE IF LimitReached(record.count, maxRequests)
  THEN [ allowed |-> FALSE, resetTime |-> record.resetTime, remaining |-> 0, store |-> store ]
  ELSE [ allowed |-> TRUE, resetTime |-> record.resetTime,
         remaining |-> maxRequests - (record.count + 1),
         store |-> StoreSet(store, identifier,
                            [ count |-> record.count + 1, resetTime |-> record.resetTime ]) ]

\* The auth-token cookie: absent, or a token with the role its payload
\* claims and whether its signature verifies against JWT_SECRET.
NoCookie == [ present |-> FALSE, signed |-> FALSE, role |-> "none" ]
Token(signed, role) == [ present |-> TRUE, signed |-> signed, role |-> role ]
Cookies ==
  { NoCookie, Token(FALSE, "admin"), Token(TRUE, "user"), Token(TRUE, "admin") }

\* Variant: the payload is read without verifying the signature.
DecodeJWTToken(token) == [ role |-> token.role ]

\* verifyJWTToken: the payload, or null when jwtVerify throws.
verifyJWTToken(token) == IF token.signed THEN [ role |-> token.role ] ELSE Null

\* checkAuthentication(request)
checkAuthentication(cookie) ==
  IF ~cookie.present THEN [ isAuthenticated |-> FALSE, isAdmin |-> FALSE ]
  ELSE LET payload == verifyJWTToken(cookie) IN
       IF payload = Null THEN [ isAuthenticated |-> FALSE, isAdmin |-> FALSE ]
       ELSE [ isAuthenticated |-> TRUE, isAdmin |-> payload.role = "admin" ]

StatusResponse(status) == [ kind |-> "status", status |-> status, to |-> <<>> ]
RedirectResponse(to) == [ kind |-> "redirect", status |-> 307, to |-> to ]
NextResponse == [ kind |-> "next", status |-> 200, to |-> <<>> ]

\* `${clientIP}:${pathname}`
RateLimitKey(clientIP, pathname) == << clientIP, pathname >>

\* The part of middleware after the rate limit.  The result of the header
\* validation is only logged, and NextResponse.next() with the X-User
\* headers or with the security headers passes the request through alike.
AuthStep(pathname, cookie) ==
  LET isProtectedRoute == \E route \in PROTECTED_ROUTES : StartsWith(pathname, route)
      isAdminRoute == \E route \in ADMIN_ROUTES : StartsWith(pathname, route)
      auth == checkAuthentication(cookie)
  IN IF ~isProtectedRoute THEN NextResponse
     ELSE IF ~auth.isAuthenticated
     THEN IF StartsWith(pathname, PathApi) THEN StatusResponse(401)
          ELSE RedirectResponse(<< "/", "l", "o", "g", "i", "n" >>)
     ELSE IF isAdminRoute /\ ~auth.isAdmin
     THEN IF StartsWith(pathname, PathApi) THEN StatusResponse(403)
          ELSE RedirectResponse(PathProperties)
     ELSE NextResponse

\* middleware(request) at instant t: the response, what checkRateLimit
\* returned (Null when it was not called) and the store afterwards.
middleware(store, clientIP, pathname, cookie, t) ==
  IF ~StartsWith(pathname, PathNext) /\ ~StartsWith(pathname, PathFavicon)
  THEN LET rateLimitConfig == getRateLimitConfig(pathname)
           rateLimit == checkRateLimit(store, RateLimitKey(clientIP, pathname),
                                       rateLimitConfig.requests, rateLimitConfig.window, t)
       IN [ response |-> IF ~rateLimit.allowed THEN StatusResponse(429)
                         ELSE AuthStep(pathname, cookie),
            rateLimit |-> rateLimit, store |-> rateLimit.store ]
  ELSE [ response |-> AuthStep(pathname, cookie), rateLimit |-> Null, store |-> store ]

MwTickStep == 30 * 1000
MwMaxTicks == 3
ClientIPs == { "203.0.113.7" }
Pathnames ==
  { PathAdmin, PathAdmin \o << "/", "u", "s", "e", "r", "s" >>, PathAccount,
    PathApiAdmin, PathApiAdmin \o << "/", "s", "t", "a", "t", "s" >>,
    PathLogin, PathProperties, PathNext \o << "a" >> }

MwInit ==
  /\ GetIdle
  /\ web = AllListedWeb
  /\ MergeIdle
  /\ JoinIdle
  /\ DateIdle
  /\ AdapterIdle
  /\ LoopIdle
  /\ mwPath \in Pathnames
  /\ mwNow = 0
  /\ rateLimitStore = <<>>
  /\ windowAllowed = <<>>
  /\ mwOut = <<>>

\* The clock moves on between two requests.
MwTick ==
  /\ mwNow < MwMaxTicks * MwTickStep
  /\ mwNow' = mwNow + MwTickStep
  /\ UNCHANGED << mwPath, rateLimitStore, windowAllowed, mwOut >>
  /\ UNCHANGED getVars
  /\ UNCHANGED << mergeVars, joinVars, dateVars, adapterVars, loopVars >>

\* A client requests the pathname and the middleware answers.
Request(clientIP, cookie) ==
  LET out == middleware(rateLimitStore, clientIP, mwPath, cookie, mwNow)
      key == RateLimitKey(clientIP, mwPath)
      before == StoreGet(rateLimitStore, key)
      opens == before = Null \/ mwNow > before.resetTime
      sofar == IF key \in DOMAIN windowAllowed THEN windowAllowed[key] ELSE 0
  IN /\ rateLimitStore' = out.store
     /\ windowAllowed' =
          IF out.rateLimit = Null THEN windowAllowed
          ELSE StoreSet(windowAllowed, key,
                        IF opens THEN 1
                        ELSE IF out.rateLimit.allowed THEN sofar + 1 ELSE sofar)
     /\ mwOut' = << [ clientIP |-> clientIP, cookie |-> cookie, at |-> mwNow,
                      response |-> out.response, rateLimit |-> out.rateLimit,
                      before |-> rateLimitStore, allowedBefore |-> IF opens THEN 0 ELSE sofar ] >>
     /\ UNCHANGED << mwPath, mwNow >>
     /\ UNCHANGED getVars
     /\ UNCHANGED << mergeVars, joinVars, dateVars, adapterVars, loopVars >>

MwNext ==
  \/ MwTick
  \/ \E clientIP \in ClientIPs, cookie \in Cookies : Request(clientIP, cookie)

SpecMw == MwInit /\ [][MwNext]_vars

\* ------------------------------------- the per-listing loop, step by step
\* Index pages with more links than the loop takes.
ExtraLinks == 2
ManyLinks == MaxListings + ExtraLinks
Link(n) == [ street |-> "straat", ref |-> n ]
ManyHrefs == { Link(n) : n \in 1..ManyLinks }

\* An index page with the given links, every detail page dated and priced.
LongSite(links) ==
  [ index |-> "ok", links |-> links,
    pages |-> [h \in ManyHrefs |-> PricedPage(PageOk(h.ref % 4), << Cap(FALSE, 0, 900 + h.ref) >>)],
    context |-> [h \in ManyHrefs |-> <<>>],
    contextRooms |-> [h \in ManyHrefs |-> <<>>],
    contextSize |-> [h \in ManyHrefs |-> <<>>] ]

\* Every link once; every link twice in a row; and two short pages.
LoopSites ==
  { LongSite([n \in 1..ManyLinks |-> Link(n)]),
    LongSite([n \in 1..ManyLinks |-> Link((n + 1) \div 2)]),
    SiteListed,
    SiteFlaky }

LoopInputs ==
  { [ agency |-> a, site |-> st, seed |-> sd ] :
      a \in NetAdapters, st \in LoopSites, sd \in Seeds }

\* Milliseconds that pass between the end of an iteration and the next
\* fetch: the loop holds no timer, so it is whatever the event loop takes.
Waits == { 0, 250 }

LinksOf(site) == { site.links[k] : k \in 1..Len(site.links) }

LoopInit ==
  /\ GetIdle
  /\ web = AllListedWeb
  /\ MergeIdle
  /\ JoinIdle
  /\ DateIdle
  /\ AdapterIdle
  /\ MwIdle
  /\ loopIn \in LoopInputs
  /\ loopRun = [ i |-> 0, processedUrls |-> {}, properties |-> <<>>,
                 fetching |-> <<>>, fetched |-> [h \in LinksOf(loopIn.site) |-> 0],
                 sinceLast |-> <<>> ]

LoopRunning ==
  /\ loopRun.fetching = <<>>
  /\ loopRun.i < LoopBound(Len(loopIn.site.links))

\* if (processedUrls.has(href)) continue;
LoopSkip ==
  /\ LoopRunning
  /\ AlreadyProcessed(loopRun.processedUrls, loopIn.site.links[loopRun.i + 1])
  /\ loopRun' = [ loopRun EXCEPT !.i = @ + 1 ]
  /\ UNCHANGED loopIn
  /\ UNCHANGED getVars
  /\ UNCHANGED << mergeVars, joinVars, dateVars, adapterVars, mwVars >>

\* processedUrls.add(href); ... await fetch(fullUrl, ...): the request for
\* the detail page leaves, wait ms after the previous one completed.
FetchStart(wait) ==
  /\ LoopRunning
  /\ LET href == loopIn.site.links[loopRun.i + 1] IN
       /\ ~AlreadyProcessed(loopRun.processedUrls, href)
       /\ loopRun' = [ loopRun EXCEPT !.processedUrls = @ \cup { href },
                                      !.fetching = << href >>,
                                      !.fetched[href] = @ + 1,
                                      !.sinceLast = IF loopRun.properties = <<>> THEN <<>>
                                                    ELSE << wait >> ]
  /\ UNCHANGED loopIn
  /\ UNCHANGED getVars
  /\ UNCHANGED << mergeVars, joinVars, dateVars, adapterVars, mwVars >>

\* The fetch settles (OK, another status, or an exception caught by the
\* inner try) and the record of the listing is pushed.
FetchEnd ==
  /\ loopRun.fetching # <<>>
  /\ loopRun' = [ loopRun EXCEPT !.fetching = <<>>,
                                 !.i = @ + 1,
                                 !.properties =
                                    Append(@, ListingRecord(loopIn.agency, loopIn.site, StartTime,
                                                            loopIn.seed, loopRun.i,
                                                            loopRun.fetching[1])) ]
  /\ UNCHANGED loopIn
  /\ UNCHANGED getVars
  /\ UNCHANGED << mergeVars, joinVars, dateVars, adapterVars, mwVars >>

LoopNext ==
  \/ LoopSkip
  \/ \E wait \in Waits : FetchStart(wait)
  \/ FetchEnd

SpecLoop == LoopInit /\ [][LoopNext]_vars

\* The server's calendar day at an instant, as an epoch day.
LocalDay(ms, tz) == (ms + tz * MINUTE) \div DAY

\* The link a record of a network adapter was built from.
LinkOf(r) == [ street |-> r.sourceUrl.street, ref |-> r.sourceUrl.ref ]

\* =================================================================== claims
InFlight == { c \in Callers : pc[c] = "scraping" }

AllNetworkDown == \A a \in NetAdapters : web[a].index = "throw"

\* C1: at most one aggregation run (the adapters launched and awaited by a
\* GET) is in flight at any time.
C1_SingleFlight == Cardinality(InFlight) <= 1

\* C2: a GET answers from the cache, in one step and without touching the
\* cache, exactly when a snapshot exists and is less than ten minutes old;
\* in every other case it launches the adapters, and when such a call
\* completes the result it returns is the one it stored as the snapshot.
C2_CacheHitExactlyWhenFresh ==
  [][\A c \in Callers :
       /\ (pc[c] = "idle" /\ pc'[c] # "idle") =>
            IF cachedResult # Null /\ now - lastScrapeTs < 600000
            THEN /\ pc'[c] = "done"
                 /\ response'[c] = [cachedResult EXCEPT !.cached = TRUE]
                 /\ UNCHANGED cacheVars
            ELSE /\ pc'[c] = "scraping"
                 /\ response'[c] = Null
       /\ (pc[c] \in { "scraping", "notifying" } /\ pc'[c] = "done") =>
            /\ ~response'[c].cached
            /\ cachedResult' = response'[c]
            /\ lastScrapeTs' = now]_vars

C2_Witness ==
  \E c, d \in Callers :
    /\ pc[c] = "done" /\ response[c].cached
    /\ pc[d] = "scraping"
    /\ cachedResult # Null
    /\ startTs[d] - lastScrapeTs = 600000

\* C3: a listing with the same source and the same path in two consecutive
\* cycles has the same id in both and is not reported as new by the second.
C3_StableIds ==
  \A c \in Callers :
    result[c] # Null =>
      \A i \in 1..Len(result[c].properties), j \in 1..Len(previousProperties[c]) :
        LET r == result[c].properties[i]
            p == previousProperties[c][j]
        IN (r.agent = p.agent /\ r.sourceUrl = p.sourceUrl /\ p.id[2] < startTs[c]) =>
             /\ r.id = p.id
             /\ \A k \in 1..Len(newProperties[c]) : newProperties[c][k] # r

\* C4: when change detection runs with no snapshot in the cache, the set of
\* new records is empty and the notifier is not called.
C4_FirstAggregationReportsNothing ==
  [][\A c \in Callers :
       (pc[c] = "scraping" /\ pc'[c] # "scraping" /\ cachedResult = Null) =>
         /\ newProperties'[c] = <<>>
         /\ notifierArg'[c] = <<>>
         /\ pc'[c] = "done"]_vars

C4_Witness ==
  \E c \in Callers :
    /\ pc[c] = "done"
    /\ result[c] # Null
    /\ Len(result[c].properties) > 0
    /\ previousProperties[c] = <<>>
    /\ notifierArg[c] = <<>>

\* C5: when change detection runs against a previous snapshot, the batch is
\* the records of the new aggregation whose id is not among the previous
\* snapshot's ids, each once and in aggregation order, and the notifier is
\* called with exactly that batch when it is not empty.
C5_BatchIsIdDifference ==
  [][\A c \in Callers :
       (pc[c] = "scraping" /\ pc'[c] # "scraping" /\ cachedResult # Null) =>
         LET all == result'[c].properties
             prevIds == { cachedResult.properties[j].id : j \in 1..Len(cachedResult.properties) }
             newIdx == { i \in 1..Len(all) : all[i].id \notin prevIds }
             batch == newProperties'[c]
         IN /\ Len(batch) = Cardinality(newIdx)
            /\ \A i \in newIdx : batch[Cardinality({ j \in newIdx : j <= i })] = all[i]
            /\ IF newIdx # {}
               THEN notifierArg'[c] = << batch >> /\ pc'[c] = "notifying"
               ELSE notifierArg'[c] = <<>>]_vars

C5_Witness ==
  \E c \in Callers :
    /\ pc[c] = "notifying"
    /\ notifierArg[c] = << newProperties[c] >>
    /\ Len(newProperties[c]) > 0
    /\ Len(newProperties[c]) < Len(result[c].properties)

\* C6: whatever subset of the nine adapters rejects, the merge completes and
\* its output contains every record of every adapter that fulfilled.
C6_FulfilledRecordsAllMerged ==
  mergedOut # <<>> =>
    \A k \in 1..Len(settledIn) :
      settledIn[k].status = "fulfilled" =>
        \A j \in 1..Len(settledIn[k].value) :
          \E m \in 1..Len(mergedOut[1]) : mergedOut[1][m] = settledIn[k].value[j]

C6_Witness ==
  /\ mergedOut # <<>>
  /\ \E k \in 1..Len(settledIn) : settledIn[k].status = "rejected"
  /\ \E k, m \in 1..Len(settledIn) :
       /\ k < m
       /\ settledIn[k].status = "rejected"
       /\ settledIn[m].status = "fulfilled"
       /\ Len(settledIn[m].value) > 0

\* C7: when every network request fails, the snapshot GET returns has zero
\* records.
C7_OutageGivesEmptySnapshot ==
  \A c \in Callers :
    (AllNetworkDown /\ pc[c] = "done" /\ ~response[c].cached) =>
      response[c].count = 0 /\ response[c].properties = <<>>

\* C8: a GET that launched the adapters eventually returns, also when a
\* source never answers.
C8_GetEventuallyReturns ==
  \A c \in Callers : (pc[c] = "scraping") ~> (pc[c] = "done")

\* C9: no snapshot returned by GET holds two records with equal title and
\* equal location.
C9_NoDuplicateTitleLocation ==
  \A c \in Callers :
    pc[c] = "done" =>
      \A i, j \in 1..Len(response[c].properties) :
        i < j =>
          ~ /\ response[c].properties[i].title = response[c].properties[j].title
            /\ response[c].properties[i].location = response[c].properties[j].location

\* C10: the records of a snapshot returned by GET are in ascending daysAgo
\* order.
C10_SortedByDaysAgo ==
  \A c \in Callers :
    pc[c] = "done" =>
      \A i, j \in 1..Len(response[c].properties) :
        i < j => response[c].properties[i].daysAgo <= response[c].properties[j].daysAgo

\* C11: for fixed adapter results, the merged list is the concatenation of
\* the fulfilled adapters' lists in agency order, whatever the order in which
\* the promises settled.
C11_MergeOrderIndependent ==
  (mergedOut # <<>> /\ joinOrder # <<>>) =>
    LET v(k) == IF settledIn[k].status = "fulfilled" THEN settledIn[k].value ELSE <<>>
    IN mergedOut[1] = v(1) \o v(2) \o v(3) \o v(4) \o v(5) \o v(6) \o v(7) \o v(8) \o v(9)

C11_Witness ==
  /\ mergedOut # <<>>
  /\ Len(joinOrder) = 9
  /\ \E i, j \in 1..9 :
       /\ i < j /\ joinOrder[i] > joinOrder[j]
       /\ settledIn[joinOrder[i]].status = "fulfilled"
       /\ settledIn[joinOrder[j]].status = "fulfilled"
       /\ Len(settledIn[joinOrder[i]].value) > 0
       /\ Len(settledIn[joinOrder[j]].value) > 0

\* C12: every record an adapter returns has price 0 or a price within the
\* band 400..3500.
C12_PriceZeroOrInBand ==
  adOut # <<>> =>
    (adOut[1].status = "fulfilled" =>
       \A k \in 1..Len(adOut[1].value) :
         LET price == adOut[1].value[k].price
         IN price = 0 \/ (price >= 400 /\ price <= 3500))

\* C13: a record of a listing for which neither the index context nor the
\* detail page gives a price match has price 0.
C13_NoMatchGivesZero ==
  (adOut # <<>> /\ adIn.agency \in NetAdapters) =>
    (adOut[1].status = "fulfilled" =>
       \A k \in 1..Len(adOut[1].value) :
         LET r == adOut[1].value[k]
             page == adIn.site.pages[LinkOf(r)]
         IN (/\ adIn.site.context[LinkOf(r)] = <<>>
             /\ (page.status # "ok" \/ page.priceMatches = <<>>)) =>
              r.price = 0)

\* C14: parseDutchDate returns a daysAgo that is a non-negative integer for
\* every input; for a text that names a date it is the number of whole days
\* from that date to today, and 0 when the date is still to come; every
\* record an adapter builds from it has daysAgo >= 0.
C14_DaysAgoClamped ==
  dateOut # <<>> =>
    /\ dateOut[1].daysAgo \in Nat
    /\ dateIn.call.form # "other" =>
         LET d == dateIn.call.date
             whole == LocalDay(dateIn.today, dateIn.tz) - EpochDay(d.year, d.month - 1, d.day)
         IN dateOut[1].daysAgo = IF whole > 0 THEN whole ELSE 0
    /\ adOut # <<>> =>
         \A k \in 1..Len(adOut[1].value) : adOut[1].value[k].daysAgo \in Nat

C14_Witness ==
  /\ dateOut # <<>>
  /\ dateIn.call.date = CalendarDate(2025, 8, 15)
  /\ dateOut[1].daysAgo = 0
  /\ adOut # <<>>
  /\ Len(adOut[1].value) = 2

\* C15: for a numeric DD-MM-YYYY text of a calendar date, parseDutchDate
\* returns that same calendar day as listedDate and the whole-day
\* difference to today as daysAgo, in every zone and at every time of day.
C15_NumericSameDay ==
  (dateOut # <<>> /\ dateIn.call.form = "numeric" /\ IsCalendarDate(dateIn.call.date)) =>
    LET d == dateIn.call.date
        whole == LocalDay(dateIn.today, dateIn.tz) - EpochDay(d.year, d.month - 1, d.day)
    IN /\ dateOut[1].listedDate = d
       /\ dateOut[1].daysAgo = IF whole > 0 THEN whole ELSE 0

\* C16: for every calendar date, the long form and the numeric form of the
\* date give the same listedDate and daysAgo under the same today.
C16_LongEqualsNumeric ==
  (dateOut # <<>> /\ dateIn.call.form # "other" /\ IsCalendarDate(dateIn.call.date)) =>
    LET other == IF dateIn.call.form = "numeric"
                 THEN LongText(dateIn.call.date)
                 ELSE NumericText(dateIn.call.date)
    IN dateOut[1] = parseDutchDate(other, dateIn.today, dateIn.tz, dateIn.seed)

C16_Witness ==
  /\ dateOut # <<>>
  /\ dateIn.call.form = "long"
  /\ dateIn.call.date = CalendarDate(2024, 2, 29)
  /\ dateOut[1].daysAgo > 400

\* C17: when the notifier call fails, GET still stores the new snapshot in
\* the cache and returns it as its response, and the notifier is not called
\* again for that batch.
C17_NotifierFailureStillStores ==
  [][\A c \in Callers :
       /\ (pc[c] = "notifying" /\ pc'[c] # "notifying" /\ notifyOutcome'[c] = "rejected") =>
            /\ pc'[c] = "done"
            /\ cachedResult' = result[c]
            /\ lastScrapeTs' = now
            /\ response'[c] = result[c]
            /\ notifierArg'[c] = notifierArg[c]
       /\ (pc[c] = "done") =>
            /\ pc'[c] = "done"
            /\ notifierArg'[c] = notifierArg[c]]_vars

C17_Witness ==
  \E c \in Callers :
    /\ pc[c] = "done"
    /\ notifyOutcome[c] = "rejected"
    /\ Len(notifierArg[c][1]) > 0
    /\ cachedResult = result[c]
    /\ response[c] = result[c]

\* Calls answered from the same stored snapshot: the call that stored it and
\* the cache hits up to the next store.
SameWindow(c, d) ==
  /\ pc[c] = "done" /\ pc[d] = "done"
  /\ servedStore[c] = servedStore[d]

\* C18 as stated: two GET calls within the same TTL window return identical
\* responses in every field, whether the first filled the cache or was a hit.
C18_BitIdentical ==
  \A c, d \in Callers : SameWindow(c, d) => response[c] = response[d]

\* C18: two GET calls answered from the same stored snapshot return the same
\* records, count, timestamp and sources and the same set of fields; they
\* differ at most in the cached flag, which is false only in the response of
\* the call that stored the snapshot.
C18_IdenticalUpToCachedFlag ==
  \A c, d \in Callers :
    SameWindow(c, d) =>
      /\ DOMAIN response[c] = DOMAIN response[d]
      /\ response[c].properties = response[d].properties
      /\ response[c].count = response[d].count
      /\ response[c].timestamp = response[d].timestamp
      /\ response[c].sources = response[d].sources
      /\ (c # d) => (response[c].cached \/ response[d].cached)

C18_Witness ==
  \E c, d, e \in Callers :
    /\ SameWindow(c, d) /\ SameWindow(d, e)
    /\ d # e
    /\ ~response[c].cached /\ response[d].cached /\ response[e].cached
    /\ response[c].count > 0

\* C19: the promise of an adapter is always fulfilled with a list, never
\* rejected; when the index request fails, answers with a non-OK status or
\* an exception is thrown while the index page is read, the list is empty.
C19_AdapterNeverRejects ==
  adOut # <<>> =>
    /\ adOut[1].status = "fulfilled"
    /\ Len(adOut[1].value) >= 0
    /\ (adIn.agency \in NetAdapters /\ adIn.site.index # "ok") => adOut[1].value = <<>>

C19_Witness ==
  /\ adOut # <<>>
  /\ adIn.agency = "rotsvast"
  /\ adIn.site.index = "badbody"
  /\ adOut[1].status = "fulfilled"
  /\ adOut[1].value = <<>>

\* The candidate links whose detail-page fetch throws or is not OK.
FailedLinks(site) == { h \in FetchedLinks(site) : site.pages[h].status \in { "throw", "nonok" } }

\* C20: when the detail-page fetch of a listing fails (exception or non-OK
\* status), the adapter still processes every other candidate link: its
\* promise is fulfilled with one record per distinct link, and the records
\* of the listings whose page was read carry the price found on that page.
C20_DetailFailureKeepsBatch ==
  (adOut # <<>> /\ adIn.agency \in NetAdapters /\ adIn.site.index = "ok"
     /\ FailedLinks(adIn.site) # {}) =>
    /\ adOut[1].status = "fulfilled"
    /\ Len(adOut[1].value) = Cardinality(FetchedLinks(adIn.site))
    /\ \A h \in FetchedLinks(adIn.site) :
         \E k \in 1..Len(adOut[1].value) :
           /\ LinkOf(adOut[1].value[k]) = h
           /\ (adIn.agency = "rotsvast" /\ adIn.site.pages[h].status = "ok") =>
                adOut[1].value[k].price = FirstMatchPrice(adIn.site.pages[h].priceMatches)

C20_Witness ==
  /\ adOut # <<>>
  /\ adIn.agency = "rotsvast"
  /\ adIn.site.links = << H1, H2 >>
  /\ adIn.site.pages[H1].status = "throw"
  /\ adIn.site.pages[H2].status = "ok"
  /\ Len(adOut[1].value) = 2
  /\ adOut[1].value[2].price = 950

\* The adapters that read rooms and size from the detail page.
RoomReaders == { "gruno", "vandermeulen", "rotsvast", "nova", "123wonen" }

\* C21: whenever the rooms pattern or the size pattern matched on the detail
\* page of a listing, the record carries the matched value, whatever the
\* value; the estimate is used only when nothing matched.
C21_MatchedValueKept ==
  (adOut # <<>> /\ adIn.agency \in RoomReaders) =>
    (adOut[1].status = "fulfilled" =>
       \A k \in 1..Len(adOut[1].value) :
         LET r == adOut[1].value[k]
             page == adIn.site.pages[LinkOf(r)]
         IN page.status = "ok" =>
              /\ page.roomsMatch # <<>> => r.rooms = page.roomsMatch[1]
              /\ page.sizeMatch # <<>> => r.size = page.sizeMatch[1])

\* C27: every record carries a non-empty listedDate that is a calendar date,
\* whether the detail-page fetch returned OK, returned another status or
\* threw, and whether or not a date pattern matched.
C27_ListedDateNeverEmpty ==
  adOut # <<>> =>
    (adOut[1].status = "fulfilled" =>
       \A k \in 1..Len(adOut[1].value) :
         LET r == adOut[1].value[k]
         IN /\ r.listedDate # <<>>
            /\ IsCalendarDate(r.listedDate[1]))

\* The longest fallback range of parseDutchDate, in days.
FallbackDays == 14

\* C22: for a text that is not a valid date of the numeric or the long
\* family, parseDutchDate returns a recent date: daysAgo is below 14 and
\* listedDate is at most 14 days before today, and not after it.
C22_InvalidGivesRecentFallback ==
  (dateOut # <<>> /\ (dateIn.call.form = "other" \/ ~IsCalendarDate(dateIn.call.date))) =>
    LET listed == dateOut[1].listedDate
        back == (dateIn.today \div DAY) - EpochDay(listed.year, listed.month - 1, listed.day)
    IN /\ dateOut[1].daysAgo \in 0..(FallbackDays - 1)
       /\ back \in 0..FallbackDays

\* A request for mwPath has been answered.
Answered == mwOut # <<>>

ProtectedPath == \E route \in PROTECTED_ROUTES : StartsWith(mwPath, route)
AdminPath == \E route \in ADMIN_ROUTES : StartsWith(mwPath, route)

\* The request was passed through only with a cookie that verifies and, on
\* an admin path, carries the admin role.
PassedOnlyVerified ==
  mwOut[1].response.kind = "next" =>
    /\ mwOut[1].cookie.present /\ mwOut[1].cookie.signed
    /\ AdminPath => mwOut[1].cookie.role = "admin"

\* 401 or 403 for /api/ paths, a redirect for page paths.
RefusalOf(pathname) ==
  IF StartsWith(pathname, PathApi)
  THEN { StatusResponse(401), StatusResponse(403) }
  ELSE { RedirectResponse(<< "/", "l", "o", "g", "i", "n" >>), RedirectResponse(PathProperties) }

\* C30 as stated: a request for a protected path is passed through only
\* when its cookie verifies (with the admin role on admin paths), and every
\* other outcome is 401 or 403 for /api/ paths and a redirect for page paths.
C30_RefusedWith401Or403OrRedirect ==
  (Answered /\ ProtectedPath) =>
    /\ PassedOnlyVerified
    /\ mwOut[1].response.kind # "next" => mwOut[1].response \in RefusalOf(mwPath)

\* C30: a request for a protected path is passed through only when its
\* cookie verifies (with the admin role on admin paths); every other
\* outcome is 429 when the rate limit of the path is exceeded, and else 401
\* or 403 for /api/ paths and a redirect for page paths.
C30_PassOnlyVerifiedElseRefused ==
  (Answered /\ ProtectedPath) =>
    /\ PassedOnlyVerified
    /\ mwOut[1].response.kind # "next" =>
         IF ~mwOut[1].rateLimit.allowed THEN mwOut[1].response = StatusResponse(429)
         ELSE mwOut[1].response \in RefusalOf(mwPath)

\* A forged admin token is refused on an admin API path.
C30_Witness ==
  /\ Answered
  /\ mwPath = PathApiAdmin
  /\ mwOut[1].cookie = Token(FALSE, "admin")
  /\ mwOut[1].response = StatusResponse(401)

\* C29: per identifier, from the call that opens a window until the clock
\* passes its resetTime, at most maxRequests calls are allowed; once that
\* many were allowed every further call is denied with remaining 0, and a
\* denied call leaves the stored count and resetTime as they were.
C29_AtMostMaxPerWindow ==
  (Answered /\ mwOut[1].rateLimit # Null) =>
    LET key == RateLimitKey(mwOut[1].clientIP, mwPath)
        maxRequests == getRateLimitConfig(mwPath).requests
        rateLimit == mwOut[1].rateLimit
    IN /\ windowAllowed[key] <= maxRequests
       /\ mwOut[1].allowedBefore >= maxRequests => ~rateLimit.allowed
       /\ ~rateLimit.allowed =>
            /\ rateLimit.remaining = 0
            /\ rateLimitStore = mwOut[1].before

\* The sixth login attempt within the window is denied.
C29_Witness ==
  /\ Answered
  /\ mwPath = PathLogin
  /\ mwOut[1].allowedBefore = LoginRequests
  /\ ~mwOut[1].rateLimit.allowed

\* The loop has gone through its candidate links.
LoopDone == loopRun # Null /\ loopRun.fetching = <<>> /\ ~LoopRunning

FetchCount == Cardinality({ h \in LinksOf(loopIn.site) : loopRun.fetched[h] > 0 })

\* C24: detail-page fetches are issued one at a time, and at least 200 ms
\* pass between the completion of one and the start of the next.
C24_PolitenessDelay ==
  loopRun # Null =>
    /\ Len(loopRun.fetching) <= 1
    /\ loopRun.sinceLast # <<>> => loopRun.sinceLast[1] >= 200

\* C25: one adapter run takes at most 15 candidate links, issues at most 15
\* detail-page fetches and returns at most 15 records, however many links
\* the index page holds.
C25_AtMostFifteen ==
  loopRun # Null =>
    /\ loopRun.i <= MaxListings
    /\ \A h \in LinksOf(loopIn.site) : loopRun.fetched[h] <= 1
    /\ FetchCount <= MaxListings
    /\ Len(loopRun.properties) <= MaxListings

\* An index page with more than 15 distinct links, run to the end.
C25_Witness ==
  /\ LoopDone
  /\ Len(loopIn.site.links) > MaxListings
  /\ Cardinality(LinksOf(loopIn.site)) > MaxListings
  /\ FetchCount = MaxListings
  /\ Len(loopRun.properties) = MaxListings

\* C26: whenever the cache is overwritten, the timestamp of the snapshot
\* stored is not older than the timestamp of the snapshot it replaces.
C26_CacheNeverGoesBack ==
  [][(stores' = stores + 1 /\ cachedResult # Null) =>
       cachedResult'.timestamp >= cachedResult.timestamp]_vars

\* C28: a call answered from the cache (GET returns at its first step) is
\* never served a snapshot whose timestamp, the instant the result was
\* built, lies 10 minutes or more before the call.
C28_HitYoungerThanTenMinutes ==
  [][\A c \in Callers :
       (pc[c] = "idle" /\ pc'[c] = "done") =>
         (response'[c].cached /\ now - response'[c].timestamp < TEN_MIN)]_vars

====
